---- MODULE Spec2Model ----
(***************************************************************************)
(* Slide-Timers (src/main.py): add_videos walks the slides of a deck in    *)
(* order, tracks the active slide-range budget, resolves one duration per  *)
(* slide and inserts the timer video for it; delete_videos removes every   *)
(* video element of the deck.                                              *)
(*                                                                         *)
(* Python's None is modelled as the empty sequence and a value v that may  *)
(* be None as <<v>> (a match object, an optional dictionary key).  The     *)
(* keys of TIMER_VIDEOS are the strings str(n); str is injective on the    *)
(* integers, so a key is modelled by its integer.                          *)
(***************************************************************************)
EXTENDS Integers, Sequences, FiniteSets, TLC

\* Number of slides of the largest deck explored.
MaxSlides == 3

\* Largest slide number and largest total of the range declarations explored
\* one by one.
MaxRangeEnd == 6
MaxRangeMinutes == 26

\* Number of slides of the largest deck on which whole command sequences
\* are explored, and the length of the longest command sequence.
MaxSessionSlides == 2
MaxCommands == 4

None == <<>>

VARIABLES
    slides,                     \* pres["slides"]: the deck, read once
    videos,                     \* per slide, the video elements created on it
    idx,                        \* position of the for loop in slides
    pc,                         \* "for", "resolve", "input", "lookup", "done", "raised"
    error,                      \* the exception that ended the run, or "none"
    slide_number,
    slide_in_range,
    inserted_count,
    mins_assigned_so_far,
    range_start,
    range_end,
    range_total_mins,
    range_avg_mins_per_slide,
    range_mins_assigned_so_far,
    range_info_slide_number,
    slide_suggested_mins,
    slide_duration,
    operator_input,             \* the text last read by input(), or None
    outcome,                    \* per slide, the <<branch, duration>> decisions taken
    at_entry,                   \* the accumulators as they were when the loop body began
    suggested_times_sum,        \* None until a range declaration is scanned, then <<sum>>
    commands,                   \* the commands run so far: "add", "delete"
    requests,                   \* body["requests"] of the last delete's batchUpdate, or None
    answers,                    \* per slide, the texts typed at the prompt in this run
    previous                    \* what the add before the last delete left behind

vars == <<slides, videos, idx, pc, error, slide_number, slide_in_range,
          inserted_count, mins_assigned_so_far, range_start, range_end,
          range_total_mins, range_avg_mins_per_slide,
          range_mins_assigned_so_far, range_info_slide_number,
          slide_suggested_mins, slide_duration, operator_input, outcome,
          at_entry, suggested_times_sum, commands, requests, answers, previous>>

\* What only the start of a command changes.
session == <<commands, requests, previous>>

(***************************************************************************)
(* The static table and the arithmetic.                                    *)
(***************************************************************************)

\* TIMER_VIDEOS: key (minutes) -> <<url prefix, video id>>.
TIMER_VIDEOS ==
    (1 :> <<"https://www.youtube.com/watch?v=", "OUQXwVIQw54">>) @@
    (2 :> <<"https://www.youtube.com/watch?v=", "R36tED8kLsU">>) @@
    (3 :> <<"https://www.youtube.com/watch?v=", "07T16GrtySQ">>) @@
    (4 :> <<"https://www.youtube.com/watch?v=", "zVHWhLme2NQ">>) @@
    (5 :> <<"https://www.youtube.com/watch?v=", "h6Hr8IJLpLo">>) @@
    (6 :> <<"https://www.youtube.com/watch?v=", "2Zdyu2lE-dM">>) @@
    (7 :> <<"https://www.youtube.com/watch?v=", "Em14gkKfczM">>) @@
    (8 :> <<"https://www.youtube.com/watch?v=", "xwgVlLn2Btc">>) @@
    (9 :> <<"https://www.youtube.com/watch?v=", "RA9KsHy6Ejo">>) @@
    (10 :> <<"https://www.youtube.com/watch?v=", "v77I_bByCDQ">>) @@
    (15 :> <<"https://www.youtube.com/watch?v=", "u_BcMXgws6Y">>) @@
    (20 :> <<"https://www.youtube.com/watch?v=", "kxGWsHYITAw">>) @@
    (25 :> <<"https://www.youtube.com/watch?v=", "WctdLnMAOPg">>)

\* video_url.partition("v=")[2]
get_video_id(video_url) == video_url[2]

\* math.floor(a / b) for integers a and b, b # 0.
FloorDiv(a, b) == IF b > 0 THEN a \div b ELSE (-a) \div (-b)

\* int(h / 2) for an integer h: Python's int() truncates toward zero.
IntOfHalves(h) == IF h >= 0 THEN h \div 2 ELSE -((-h) \div 2)

get_num_slides_in_range(start, end) == end - start + 1

\* A mutation of get_avg_time_per_slide_in_range: the division by 2 after
\* the floor is missing.
get_avg_time_per_slide_in_range_doubled(num_slides, minutes) ==
    FloorDiv(2 * minutes, num_slides)

\* A mutation of get_avg_time_per_slide_in_range: math.ceil in place of
\* math.floor.
get_avg_time_per_slide_in_range_ceiling(num_slides, minutes) ==
    IntOfHalves(-FloorDiv(-(2 * minutes), num_slides))

\* A mutation of get_avg_time_per_slide_in_range: the total is handed to
\* every slide of the range undivided.
get_avg_time_per_slide_in_range_undivided(num_slides, minutes) == minutes

\* int(math.floor((minutes / num_slides) * 2) / 2), for num_slides # 0
\* (num_slides = 0 raises ZeroDivisionError, see ForSlide).  Doubling a float
\* is exact and the quotient of two small integers is never within rounding
\* distance of a half-integer it does not equal, so floor(avg * 2) is the
\* floor of the exact 2 * minutes / num_slides.
get_avg_time_per_slide_in_range(num_slides, minutes) ==
    IntOfHalves(FloorDiv(2 * minutes, num_slides))

(***************************************************************************)
(* The deck.  A slide is [objectId, range, notes, exit_ticket]:            *)
(*   objectId     None when the key is absent, <<n>> for "p<n>", and       *)
(*                <<n, 0>> for an id such as "g<n>_0", which lstrip("p")   *)
(*                does not reduce to a numeral;                            *)
(*   range        what RANGE_PATTERN captures in the slide's body text:    *)
(*                None when no page element matches, else <<start, end,    *)
(*                minutes>> (the three \d+ groups, as integers);           *)
(*   notes        the text shapes of the notes page, in order, each one    *)
(*                described by what the two notes patterns see in it:      *)
(*                  phrase  it begins with "tiempo sugerido" or            *)
(*                          "suggested time";                              *)
(*                  number  the numeral after the phrase: None, <<w>> for  *)
(*                          the digits w, <<w, f>> for "w.f";              *)
(*                  unit    "minutos", "minutes" or "min" follows;         *)
(*                  para    "para diapositivas" stands on its first line;  *)
(*   exit_ticket  whether the body text carries the exit-ticket heading.   *)
(***************************************************************************)

\* Range declarations that occur in the decks explored.
DeclaredRanges ==
    {<<3, 6, 10>>, <<2, 2, 3>>, <<1, 3, 7>>, <<1, 2, 25>>, <<3, 2, 4>>, <<3, 1, 4>>}

\* Suggested times that occur in the notes of the decks explored.
SuggestedTimes == {0, 5, 11}

\* "Tiempo sugerido: <t> minutos"
Suggests(t) == [phrase |-> TRUE, number |-> <<t>>, unit |-> TRUE, para |-> FALSE]

\* "Tiempo sugerido: 2.5 minutos"
Fractional == [phrase |-> TRUE, number |-> <<2, 5>>, unit |-> TRUE, para |-> FALSE]

\* "Tiempo sugerido: 5"
NoUnit == [phrase |-> TRUE, number |-> <<5>>, unit |-> FALSE, para |-> FALSE]

\* "Tiempo sugerido: minutos"
NoNumber == [phrase |-> TRUE, number |-> None, unit |-> TRUE, para |-> FALSE]

\* "Tiempo sugerido: 3 minutos para diapositivas 1-3"
ForSlides == [phrase |-> TRUE, number |-> <<3>>, unit |-> TRUE, para |-> TRUE]

\* The slide kinds a deck is built from: a slide without objectId, an
\* annotated or plain slide, a slide declaring a range (plain, or annotated
\* with 5 minutes).
SlideKinds ==
    {[id |-> "absent", range |-> None, notes |-> None, exit_ticket |-> FALSE]}
    \cup {[id |-> "p", range |-> None, notes |-> n, exit_ticket |-> FALSE] :
             n \in {None} \cup {<<Suggests(t)>> : t \in SuggestedTimes}}
    \cup {[id |-> "p", range |-> r, notes |-> n, exit_ticket |-> FALSE] :
             r \in DeclaredRanges, n \in {None, <<Suggests(5)>>}}

\* The slide kinds of the decks on which the parsing of notes and of
\* objectIds is explored: well-formed, malformed and guarded notes, notes in
\* two text shapes, an objectId that is absent or not "p<n>", a range
\* declaration, an exit-ticket slide.
TextKinds ==
    {[id |-> "p", range |-> None, notes |-> n, exit_ticket |-> FALSE] :
        n \in {None, <<Suggests(5)>>, <<Fractional>>, <<NoUnit>>, <<NoNumber>>,
               <<ForSlides>>, <<ForSlides, Suggests(5)>>}}
    \cup {[id |-> "absent", range |-> None, notes |-> <<Suggests(5)>>, exit_ticket |-> FALSE],
          [id |-> "other", range |-> None, notes |-> <<Suggests(5)>>, exit_ticket |-> FALSE],
          [id |-> "p", range |-> <<1, 3, 7>>, notes |-> None, exit_ticket |-> FALSE],
          [id |-> "p", range |-> None, notes |-> None, exit_ticket |-> TRUE],
          [id |-> "p", range |-> None, notes |-> <<Suggests(5)>>, exit_ticket |-> TRUE]}

\* The slide of kind k at position n of the deck.
SlideAt(n, k) ==
    [objectId |-> CASE k.id = "p" -> <<n>>
                    [] k.id = "absent" -> None
                    [] OTHER -> <<n, 0>>,
     range |-> k.range, notes |-> k.notes, exit_ticket |-> k.exit_ticket]

\* The deck of len slides whose slide at position n is of kind kinds[n].
Deck(len, kinds) == [n \in 1..len |-> SlideAt(n, kinds[n])]

\* What the operator may type at the prompt: digits, or something else.
InputTexts ==
    {[numeric |-> TRUE, value |-> 4], [numeric |-> TRUE, value |-> 12],
     [numeric |-> FALSE, value |-> 0]}

get_range(slide) == slide.range

\* re.match(SPEAKER_NOTES_PATTERN, full_text): None, or <<group 3>>.  The
\* phrase and the numeral are required, the unit is optional.
SPEAKER_NOTES_PATTERN(text) ==
    IF text.phrase /\ text.number # None THEN <<text.number>> ELSE None

\* re.match(UNWANTED_PATTERN, full_text) is not None.
UNWANTED_PATTERN(text) == text.para

\* int(numeral): <<n>>, or None where Python raises ValueError ("2.5").
IntOfNumeral(numeral) == IF Len(numeral) = 1 THEN <<numeral[1]>> ELSE None

\* A mutation of SuggestedElement: the unwanted-pattern guard is missing.
SuggestedElement_unguarded(slide) ==
    LET matching == {k \in DOMAIN slide.notes :
                        SPEAKER_NOTES_PATTERN(slide.notes[k]) # None}
    IN  IF matching = {} THEN 0
        ELSE CHOOSE k \in matching : \A j \in matching : k <= j

\* The notes text shape get_suggested_time_for_slide returns from: the first
\* one that matches SPEAKER_NOTES_PATTERN and not UNWANTED_PATTERN, 0 when
\* the loop over the shapes ends without a return.
SuggestedElement(slide) ==
    LET matching == {k \in DOMAIN slide.notes :
                        /\ SPEAKER_NOTES_PATTERN(slide.notes[k]) # None
                        /\ ~UNWANTED_PATTERN(slide.notes[k])}
    IN  IF matching = {} THEN 0
        ELSE CHOOSE k \in matching : \A j \in matching : k <= j

\* Whether get_suggested_time_for_slide raises ValueError: int(match.group(3))
\* of a numeral with a fraction.
SuggestedTimeRaises(slide) ==
    /\ SuggestedElement(slide) # 0
    /\ IntOfNumeral(SPEAKER_NOTES_PATTERN(slide.notes[SuggestedElement(slide)])[1]) = None

\* What get_suggested_time_for_slide returns: None, or <<n>>.  Where it
\* raises (SuggestedTimeRaises) nothing is returned; the callers test that
\* first.
get_suggested_time_for_slide(slide) ==
    IF SuggestedElement(slide) = 0 \/ SuggestedTimeRaises(slide) THEN None
    ELSE IntOfNumeral(SPEAKER_NOTES_PATTERN(slide.notes[SuggestedElement(slide)])[1])

\* Whether int(slide["objectId"].lstrip("p")) returns; it raises ValueError
\* otherwise.
HasNumericId(slide) == Len(slide.objectId) = 1

get_slide_number(slide) == slide.objectId[1]

\* A mutation of is_slide_in_range: the start of the range is excluded.
is_slide_in_range_exclusive_start(slide, start, end) ==
    get_slide_number(slide) > start /\ get_slide_number(slide) <= end

\* A mutation of is_slide_in_range: the end of the range is excluded.
is_slide_in_range_exclusive_end(slide, start, end) ==
    get_slide_number(slide) >= start /\ get_slide_number(slide) < end

\* slide_number >= start and slide_number <= end
is_slide_in_range(slide, start, end) ==
    get_slide_number(slide) >= start /\ get_slide_number(slide) <= end

\* Whether add_all_suggested_times_in_range raises ValueError: on a slide
\* whose objectId is no number, or on a slide of the range whose notes make
\* get_suggested_time_for_slide raise.
ScanRaises(deck, start, end) ==
    \E n \in DOMAIN deck :
        /\ deck[n].objectId # None
        /\ \/ ~HasNumericId(deck[n])
           \/ /\ is_slide_in_range(deck[n], start, end)
              /\ SuggestedTimeRaises(deck[n])

RECURSIVE SuggestedTimesFrom(_, _, _, _)
\* The total add_all_suggested_times_in_range accumulates from slide n on.
SuggestedTimesFrom(deck, n, start, end) ==
    IF n > Len(deck) THEN 0
    ELSE (IF /\ deck[n].objectId # None
             /\ is_slide_in_range(deck[n], start, end)
             /\ get_suggested_time_for_slide(deck[n]) # None
          THEN get_suggested_time_for_slide(deck[n])[1]
          ELSE 0) + SuggestedTimesFrom(deck, n + 1, start, end)

\* What add_all_suggested_times_in_range returns when it does not raise.
add_all_suggested_times_in_range(deck, start, end) ==
    SuggestedTimesFrom(deck, 1, start, end)

\* A mutation of TimerLookup: TIMER_VIDEOS.get with the 1-minute video as
\* default.
TimerLookup_default(duration) ==
    IF duration \in DOMAIN TIMER_VIDEOS THEN <<TIMER_VIDEOS[duration]>>
    ELSE <<TIMER_VIDEOS[1]>>

\* TIMER_VIDEOS[str(slide_duration)]: <<url>>, or None where Python raises
\* KeyError.
TimerLookup(duration) ==
    IF duration \in DOMAIN TIMER_VIDEOS THEN <<TIMER_VIDEOS[duration]>> ELSE None

\* int(text) of the text read by input(): <<n>>, or None where Python raises
\* ValueError.
IntOfInput(text) == IF text.numeric THEN <<text.value>> ELSE None

\* A mutation of Branch: the conflict branch is missing, so a slide in range
\* with its own suggested time silently keeps the suggested time.
Branch_no_prompt(in_range, suggested_mins) ==
    IF ~in_range /\ suggested_mins = 0 THEN "skip"
    ELSE IF in_range /\ suggested_mins = 0 THEN "range_average"
    ELSE "own_suggested"

\* A mutation of Branch: the skip test is missing.
Branch_never_skip(in_range, suggested_mins) ==
    IF in_range /\ suggested_mins # 0 THEN "operator"
    ELSE IF in_range THEN "range_average"
    ELSE "own_suggested"

\* The if / elif / else cascade of add_videos on (slide_in_range,
\* slide_suggested_mins): which branch runs.
Branch(in_range, suggested_mins) ==
    IF ~in_range /\ suggested_mins = 0 THEN "skip"
    ELSE IF in_range /\ suggested_mins # 0 THEN "operator"
    ELSE IF in_range THEN "range_average"
    ELSE "own_suggested"

(***************************************************************************)
(* add_videos.                                                             *)
(***************************************************************************)

\* The accumulators a slide's processing may change.
Accumulators ==
    [mins_assigned_so_far |-> mins_assigned_so_far,
     range_mins_assigned_so_far |-> range_mins_assigned_so_far,
     range |-> <<range_start, range_end, range_total_mins, range_avg_mins_per_slide>>,
     inserted_count |-> inserted_count,
     videos |-> videos]

\* The state add_videos starts the loop in, for the deck handed to it.
InitFor(deck) ==
    /\ slides = deck
    /\ videos = [n \in DOMAIN deck |-> <<>>]
    /\ idx = 1
    /\ pc = "for"
    /\ error = "none"
    /\ slide_number = 0
    /\ slide_in_range = FALSE
    /\ inserted_count = 0
    /\ mins_assigned_so_far = 0
    /\ range_start = 0
    /\ range_end = 0
    /\ range_total_mins = 0
    /\ range_avg_mins_per_slide = 0
    /\ range_mins_assigned_so_far = 0
    /\ range_info_slide_number = 0
    /\ slide_suggested_mins = 0
    /\ slide_duration = 0
    /\ operator_input = None
    /\ outcome = [n \in DOMAIN deck |-> <<>>]
    /\ at_entry =
           [mins_assigned_so_far |-> 0, range_mins_assigned_so_far |-> 0,
            range |-> <<0, 0, 0, 0>>, inserted_count |-> 0,
            videos |-> [n \in DOMAIN deck |-> <<>>]]
    /\ suggested_times_sum = None
    /\ commands = <<"add">>
    /\ requests = None
    /\ answers = [n \in DOMAIN deck |-> <<>>]
    /\ previous = None

\* Every deck of up to MaxSlides slides built from SlideKinds.
Init ==
    \E len \in 0..MaxSlides :
        \E kinds \in [1..len -> SlideKinds] : InitFor(Deck(len, kinds))

\* Every one-slide deck whose slide declares a range with bounds up to
\* MaxRangeEnd and up to MaxRangeMinutes minutes, with or without a
\* suggested time of its own.
InitRanges ==
    \E start \in 0..MaxRangeEnd, end \in 0..MaxRangeEnd, minutes \in 0..MaxRangeMinutes,
       notes \in {None, <<Suggests(5)>>} :
        InitFor(Deck(1, <<[id |-> "p", range |-> <<start, end, minutes>>,
                           notes |-> notes, exit_ticket |-> FALSE]>>))

Raise(exception) ==
    /\ pc' = "raised"
    /\ error' = exception

\* The range-scoped counter once a range declaration has been read: the
\* declaration block assigns the range and its average and nothing else.
RangeMinsAfterDeclaration == range_mins_assigned_so_far

\* Top of the loop body up to the range check: the objectId guard, the slide
\* number, a new range declaration with the scan of the suggested times of
\* its slides, and whether the slide is in range.
ForSlide ==
    /\ pc = "for"
    /\ idx <= Len(slides)
    /\ LET slide == slides[idx]
           resp == get_range(slide)
           num_slides == get_num_slides_in_range(resp[1], resp[2])
       IN  IF slide.objectId = None
           THEN /\ idx' = idx + 1
                /\ UNCHANGED <<pc, error, slide_number, slide_in_range, range_start,
                               range_end, range_total_mins, range_avg_mins_per_slide,
                               range_mins_assigned_so_far, range_info_slide_number,
                               at_entry, suggested_times_sum>>
           ELSE IF ~HasNumericId(slide)
           THEN /\ Raise("ValueError")
                /\ UNCHANGED <<idx, slide_number, slide_in_range, range_start,
                               range_end, range_total_mins, range_avg_mins_per_slide,
                               range_mins_assigned_so_far, range_info_slide_number,
                               at_entry, suggested_times_sum>>
           ELSE /\ slide_number' = get_slide_number(slide)
                /\ at_entry' = Accumulators
                /\ idx' = idx
                /\ IF resp = None
                   THEN /\ slide_in_range' = is_slide_in_range(slide, range_start, range_end)
                        /\ pc' = "resolve"
                        /\ UNCHANGED <<error, range_start, range_end, range_total_mins,
                                       range_avg_mins_per_slide,
                                       range_mins_assigned_so_far,
                                       range_info_slide_number, suggested_times_sum>>
                   ELSE /\ range_info_slide_number' = get_slide_number(slide)
                        /\ range_start' = resp[1]
                        /\ range_end' = resp[2]
                        /\ range_total_mins' = resp[3]
                        /\ range_mins_assigned_so_far' = RangeMinsAfterDeclaration
                        /\ IF num_slides = 0
                           THEN /\ Raise("ZeroDivisionError")
                                /\ UNCHANGED <<range_avg_mins_per_slide, slide_in_range,
                                               suggested_times_sum>>
                           ELSE /\ range_avg_mins_per_slide' =
                                       get_avg_time_per_slide_in_range(num_slides, resp[3])
                                /\ IF ScanRaises(slides, resp[1], resp[2])
                                   THEN /\ Raise("ValueError")
                                        /\ UNCHANGED <<slide_in_range, suggested_times_sum>>
                                   ELSE /\ suggested_times_sum' =
                                               <<add_all_suggested_times_in_range(
                                                     slides, resp[1], resp[2])>>
                                        /\ slide_in_range' =
                                               is_slide_in_range(slide, resp[1], resp[2])
                                        /\ pc' = "resolve"
                                        /\ error' = error
    /\ UNCHANGED <<slides, videos, inserted_count, mins_assigned_so_far,
                   slide_suggested_mins, slide_duration, operator_input, outcome,
                   answers, session>>

\* A mutation of UseOwnSuggested: the duration is taken from the range
\* average, as in the branch above it.
UseOwnSuggested_average(suggested) ==
    /\ slide_duration' = range_avg_mins_per_slide
    /\ mins_assigned_so_far' = mins_assigned_so_far + range_avg_mins_per_slide
    /\ pc' = "lookup"
    /\ UNCHANGED <<idx, range_mins_assigned_so_far>>

\* else: the slide's own suggested time is its duration.
UseOwnSuggested(suggested) ==
    /\ slide_duration' = suggested
    /\ mins_assigned_so_far' = mins_assigned_so_far + suggested
    /\ pc' = "lookup"
    /\ UNCHANGED <<idx, range_mins_assigned_so_far>>

\* A mutation of SkipSlide: the continue is missing, so the skipped slide
\* falls through to the else branch of the cascade.
SkipSlide_no_continue(suggested) ==
    /\ UseOwnSuggested(suggested)
    /\ outcome' = [outcome EXCEPT
                      ![idx] = Append(Append(@, <<"skip", 0>>), <<"own_suggested", suggested>>)]

\* if not slide_in_range and slide_suggested_mins == 0: continue
SkipSlide(suggested) ==
    /\ pc' = "for"
    /\ idx' = idx + 1
    /\ outcome' = [outcome EXCEPT ![idx] = Append(@, <<"skip", 0>>)]
    /\ UNCHANGED <<slide_duration, mins_assigned_so_far, range_mins_assigned_so_far>>

\* A mutation of UseRangeAverage: the range-scoped counter is left alone, as
\* in the else branch.
UseRangeAverage_total_only ==
    /\ slide_duration' = range_avg_mins_per_slide
    /\ mins_assigned_so_far' = mins_assigned_so_far + range_avg_mins_per_slide
    /\ range_mins_assigned_so_far' = range_mins_assigned_so_far
    /\ pc' = "lookup"
    /\ outcome' = [outcome EXCEPT
                      ![idx] = Append(@, <<"range_average", range_avg_mins_per_slide>>)]
    /\ idx' = idx

\* elif slide_in_range: the range average is the slide's duration.
UseRangeAverage ==
    /\ slide_duration' = range_avg_mins_per_slide
    /\ mins_assigned_so_far' = mins_assigned_so_far + range_avg_mins_per_slide
    /\ range_mins_assigned_so_far' =
           range_mins_assigned_so_far + range_avg_mins_per_slide
    /\ pc' = "lookup"
    /\ outcome' = [outcome EXCEPT
                      ![idx] = Append(@, <<"range_average", range_avg_mins_per_slide>>)]
    /\ idx' = idx

\* The slide's own suggested time and the cascade: skip, stop at the prompt,
\* the range average, or the slide's own suggested time.
Resolve ==
    /\ pc = "resolve"
    /\ LET resp == get_suggested_time_for_slide(slides[idx])
           suggested == IF resp # None THEN resp[1] ELSE slide_suggested_mins
           branch == Branch(slide_in_range, suggested)
       IN  IF SuggestedTimeRaises(slides[idx])
           THEN /\ Raise("ValueError")
                /\ UNCHANGED <<idx, outcome, slide_suggested_mins, slide_duration,
                               mins_assigned_so_far, range_mins_assigned_so_far>>
           ELSE /\ slide_suggested_mins' = suggested
                /\ error' = error
                /\ CASE branch = "skip" -> SkipSlide(suggested)
                     [] branch = "operator" ->
                          /\ pc' = "input"
                          /\ UNCHANGED <<idx, outcome, slide_duration,
                                         mins_assigned_so_far,
                                         range_mins_assigned_so_far>>
                     [] branch = "range_average" -> UseRangeAverage
                     [] OTHER ->
                          /\ UseOwnSuggested(suggested)
                          /\ outcome' = [outcome EXCEPT
                                            ![idx] = Append(@, <<"own_suggested", suggested>>)]
    /\ UNCHANGED <<slides, videos, slide_number, slide_in_range, inserted_count,
                   range_start, range_end, range_total_mins, range_avg_mins_per_slide,
                   range_info_slide_number, operator_input, at_entry,
                   suggested_times_sum, answers, session>>

\* int(input(...)): the run waits at the prompt until the operator types.
OperatorInput ==
    /\ pc = "input"
    /\ \E text \in InputTexts :
          /\ operator_input' = <<text>>
          /\ answers' = [answers EXCEPT ![idx] = Append(@, text)]
          /\ IF IntOfInput(text) = None
             THEN /\ Raise("ValueError")
                  /\ UNCHANGED <<slide_duration, mins_assigned_so_far,
                                 range_mins_assigned_so_far, outcome>>
             ELSE /\ slide_duration' = IntOfInput(text)[1]
                  /\ mins_assigned_so_far' = mins_assigned_so_far + IntOfInput(text)[1]
                  /\ range_mins_assigned_so_far' =
                         range_mins_assigned_so_far + IntOfInput(text)[1]
                  /\ outcome' = [outcome EXCEPT
                                    ![idx] = Append(@, <<"operator", IntOfInput(text)[1]>>)]
                  /\ pc' = "lookup"
                  /\ error' = error
    /\ UNCHANGED <<slides, videos, idx, slide_number, slide_in_range, inserted_count,
                   range_start, range_end, range_total_mins, range_avg_mins_per_slide,
                   range_info_slide_number, slide_suggested_mins, at_entry,
                   suggested_times_sum, session>>

\* A mutation of SuggestedMinsAfterInsert: the reset is missing.
SuggestedMinsAfterInsert_kept == slide_suggested_mins

\* slide_suggested_mins = 0 once the video is inserted.
SuggestedMinsAfterInsert == 0

\* The timer lookup and the batchUpdate that creates the video on the slide.
Lookup ==
    /\ pc = "lookup"
    /\ LET video_url == TimerLookup(slide_duration)
       IN  IF video_url = None
           THEN /\ Raise("KeyError")
                /\ UNCHANGED <<videos, idx, inserted_count, slide_suggested_mins,
                               slide_duration>>
           ELSE /\ videos' = [videos EXCEPT ![idx] = Append(@, get_video_id(video_url[1]))]
                /\ inserted_count' = inserted_count + 1
                /\ slide_suggested_mins' = SuggestedMinsAfterInsert
                /\ slide_duration' = 0
                /\ idx' = idx + 1
                /\ pc' = "for"
                /\ error' = error
    /\ UNCHANGED <<slides, slide_number, slide_in_range, mins_assigned_so_far,
                   range_start, range_end, range_total_mins, range_avg_mins_per_slide,
                   range_mins_assigned_so_far, range_info_slide_number, operator_input,
                   outcome, at_entry, suggested_times_sum, answers, session>>

\* The loop is exhausted: the final report.
Finish ==
    /\ pc = "for"
    /\ idx > Len(slides)
    /\ pc' = "done"
    /\ UNCHANGED <<slides, videos, idx, error, slide_number, slide_in_range,
                   inserted_count, mins_assigned_so_far, range_start, range_end,
                   range_total_mins, range_avg_mins_per_slide,
                   range_mins_assigned_so_far, range_info_slide_number,
                   slide_suggested_mins, slide_duration, operator_input, outcome,
                   at_entry, suggested_times_sum, answers, session>>

Next == ForSlide \/ Resolve \/ OperatorInput \/ Lookup \/ Finish

Spec == Init /\ [][Next]_vars

\* The same program on the one-slide decks of InitRanges.
SpecRanges == InitRanges /\ [][Next]_vars

\* Every deck of up to MaxSlides slides whose first slide declares a range
\* with bounds up to MaxRangeEnd and up to MaxRangeMinutes minutes, each
\* slide with or without a suggested time of its own.
InitBudget ==
    \E len \in 1..MaxSlides :
        \E start \in 0..MaxRangeEnd, end \in 0..MaxRangeEnd, minutes \in 0..MaxRangeMinutes,
           notes \in [1..len -> {None, <<Suggests(5)>>}] :
            InitFor(Deck(len, [n \in 1..len |->
                                  [id |-> "p",
                                   range |-> IF n = 1 THEN <<start, end, minutes>> ELSE None,
                                   notes |-> notes[n], exit_ticket |-> FALSE]]))

\* The same program on the decks of InitBudget.
SpecBudget == InitBudget /\ [][Next]_vars

\* Every deck of up to MaxSlides slides built from TextKinds.
InitTexts ==
    \E len \in 0..MaxSlides :
        \E kinds \in [1..len -> TextKinds] : InitFor(Deck(len, kinds))

\* The same program on the decks of InitTexts.
SpecTexts == InitTexts /\ [][Next]_vars

(***************************************************************************)
(* The commands: delete and add, run one after the other on the same deck. *)
(***************************************************************************)

\* The slide kinds of the decks on which command sequences are explored.
SessionKinds ==
    {[id |-> "absent", range |-> None, notes |-> None, exit_ticket |-> FALSE],
     [id |-> "p", range |-> None, notes |-> None, exit_ticket |-> FALSE],
     [id |-> "p", range |-> None, notes |-> <<Suggests(5)>>, exit_ticket |-> FALSE],
     [id |-> "p", range |-> None, notes |-> <<Suggests(11)>>, exit_ticket |-> FALSE],
     [id |-> "p", range |-> <<1, 3, 7>>, notes |-> None, exit_ticket |-> FALSE]}

\* The page elements of slide n as the presentation is fetched: its text
\* shape, then the video elements on it.  A page element is named by the
\* slide and its position among the slide's videos (0 for the shape).
PageElements(n) ==
    <<[objectId |-> <<n, 0>>, video |-> None]>>
    \o [k \in 1..Len(videos[n]) |-> [objectId |-> <<n, k>>, video |-> <<videos[n][k]>>]]

\* A mutation of IsVideo: every page element is taken for a video.
IsVideo_any(page_element) == TRUE

\* A mutation of IsVideo: no page element is taken for a video.
IsVideo_none(page_element) == FALSE

\* "video" in page_element
IsVideo(page_element) == page_element.video # None

RECURSIVE DeleteRequestsFrom(_)
\* The deleteObject requests delete_videos collects from slide n on, each
\* given by the objectId it names.
DeleteRequestsFrom(n) ==
    IF n > Len(slides) THEN <<>>
    ELSE LET found == SelectSeq(PageElements(n), IsVideo)
         IN  [k \in 1..Len(found) |-> found[k].objectId] \o DeleteRequestsFrom(n + 1)

\* The videos of slide n once the objects named in batch are deleted.
VideosAfterDelete(n, batch) ==
    LET kept == SelectSeq(PageElements(n),
                          LAMBDA e : /\ e.video # None
                                     /\ \A i \in DOMAIN batch : batch[i] # e.objectId)
    IN  [k \in 1..Len(kept) |-> kept[k].video[1]]

\* Every deck of up to MaxSessionSlides slides built from SessionKinds, each
\* slide with or without a video left on it, before any command is run.
InitSession ==
    \E len \in 0..MaxSessionSlides :
        \E kinds \in [1..len -> SessionKinds], left \in [1..len -> BOOLEAN] :
            /\ slides = Deck(len, kinds)
            /\ videos = [n \in 1..len |-> IF left[n] THEN <<"OUQXwVIQw54">> ELSE <<>>]
            /\ idx = 1
            /\ pc = "idle"
            /\ error = "none"
            /\ slide_number = 0
            /\ slide_in_range = FALSE
            /\ inserted_count = 0
            /\ mins_assigned_so_far = 0
            /\ range_start = 0
            /\ range_end = 0
            /\ range_total_mins = 0
            /\ range_avg_mins_per_slide = 0
            /\ range_mins_assigned_so_far = 0
            /\ range_info_slide_number = 0
            /\ slide_suggested_mins = 0
            /\ slide_duration = 0
            /\ operator_input = None
            /\ outcome = [n \in 1..len |-> <<>>]
            /\ at_entry =
                   [mins_assigned_so_far |-> 0, range_mins_assigned_so_far |-> 0,
                    range |-> <<0, 0, 0, 0>>, inserted_count |-> 0,
                    videos |-> [n \in 1..len |-> <<>>]]
            /\ suggested_times_sum = None
            /\ commands = <<>>
            /\ requests = None
            /\ answers = [n \in 1..len |-> <<>>]
            /\ previous = None

\* The delete command: delete_videos collects one deleteObject request for
\* every video page element and sends them in one batchUpdate, or sends
\* nothing when there is none.
DeleteVideos ==
    /\ pc \in {"idle", "done", "raised"}
    /\ Len(commands) < MaxCommands
    /\ commands' = Append(commands, "delete")
    /\ previous' = <<[videos |-> videos, outcome |-> outcome, answers |-> answers]>>
    /\ LET batch == DeleteRequestsFrom(1)
       IN  IF batch # <<>>
           THEN /\ requests' = <<batch>>
                /\ videos' = [n \in DOMAIN slides |-> VideosAfterDelete(n, batch)]
           ELSE /\ requests' = None
                /\ videos' = videos
    /\ pc' = "idle"
    /\ UNCHANGED <<slides, idx, error, slide_number, slide_in_range, inserted_count,
                   mins_assigned_so_far, range_start, range_end, range_total_mins,
                   range_avg_mins_per_slide, range_mins_assigned_so_far,
                   range_info_slide_number, slide_suggested_mins, slide_duration,
                   operator_input, outcome, at_entry, suggested_times_sum, answers>>

\* The add command: the presentation is fetched as it is and add_videos
\* starts its loop with every local at its initial value.
AddVideos ==
    /\ pc \in {"idle", "done", "raised"}
    /\ Len(commands) < MaxCommands
    /\ commands' = Append(commands, "add")
    /\ idx' = 1
    /\ pc' = "for"
    /\ error' = "none"
    /\ slide_number' = 0
    /\ slide_in_range' = FALSE
    /\ inserted_count' = 0
    /\ mins_assigned_so_far' = 0
    /\ range_start' = 0
    /\ range_end' = 0
    /\ range_total_mins' = 0
    /\ range_avg_mins_per_slide' = 0
    /\ range_mins_assigned_so_far' = 0
    /\ range_info_slide_number' = 0
    /\ slide_suggested_mins' = 0
    /\ slide_duration' = 0
    /\ operator_input' = None
    /\ outcome' = [n \in DOMAIN slides |-> <<>>]
    /\ at_entry' =
           [mins_assigned_so_far |-> 0, range_mins_assigned_so_far |-> 0,
            range |-> <<0, 0, 0, 0>>, inserted_count |-> 0, videos |-> videos]
    /\ suggested_times_sum' = None
    /\ answers' = [n \in DOMAIN slides |-> <<>>]
    /\ UNCHANGED <<slides, videos, requests, previous>>

NextSession ==
    DeleteVideos \/ AddVideos \/ ForSlide \/ Resolve \/ OperatorInput \/ Lookup \/ Finish

\* Sequences of up to MaxCommands commands on the decks of InitSession.
SpecSession == InitSession /\ [][NextSession]_vars

(***************************************************************************)
(* Properties.                                                             *)
(***************************************************************************)

\* The slide the loop is at, its number and its own suggested time.
Slide == slides[idx]
Number(n) == slides[n].objectId[1]
InActiveRange(n) == range_start <= Number(n) /\ Number(n) <= range_end
ActiveRange == <<range_start, range_end, range_total_mins>>

RECURSIVE SumSeq(_)
SumSeq(decisions) ==
    IF decisions = <<>> THEN 0 ELSE Head(decisions)[2] + SumSeq(Tail(decisions))

RECURSIVE DurationsUpTo(_)
\* The sum of the durations decided for slides 1..n.
DurationsUpTo(n) == IF n = 0 THEN 0 ELSE SumSeq(outcome[n]) + DurationsUpTo(n - 1)

\* The state right after slide idx - 1 was skipped by the cascade.
JustSkipped ==
    /\ pc = "for"
    /\ idx - 1 \in DOMAIN slides
    /\ slides[idx - 1].objectId # None
    /\ outcome[idx - 1] = <<(<<"skip", 0>>)>>

\* C1 as stated, on the declarations with start <= end: the stored average,
\* in half minutes, is floor(2 * total_minutes / slide_count), half minutes
\* kept, and it is not negative.
C1_AverageKeepsHalfMinutes ==
    (range_info_slide_number # 0 /\ range_start <= range_end) =>
        /\ 2 * range_avg_mins_per_slide =
               FloorDiv(2 * range_total_mins,
                        get_num_slides_in_range(range_start, range_end))
        /\ range_avg_mins_per_slide >= 0

\* C1: for every declared range whose slide count is not 0 the stored
\* average is floor(2 * total_minutes / slide_count) / 2 truncated toward
\* zero to a whole number of minutes; with start <= end that is the whole
\* number floor(total_minutes / slide_count), and it is not negative.
C1_AverageIsWholeMinutes ==
    (range_info_slide_number # 0 /\ error # "ZeroDivisionError") =>
        LET count == range_end - range_start + 1
            halves == IF count > 0 THEN (2 * range_total_mins) \div count
                      ELSE (-(2 * range_total_mins)) \div (-count)
        IN  /\ range_avg_mins_per_slide =
                   (IF halves >= 0 THEN halves \div 2 ELSE -((-halves) \div 2))
            /\ range_start <= range_end =>
                   /\ range_avg_mins_per_slide = range_total_mins \div count
                   /\ range_avg_mins_per_slide >= 0

C1_Witness ==
    /\ range_info_slide_number # 0
    /\ ActiveRange = <<3, 6, 10>>
    /\ range_avg_mins_per_slide = 2
    /\ pc = "resolve"

\* C2: every slide with an identifier that the loop has passed has exactly
\* one decision among skip, range average, own suggested time and operator
\* value; no slide ever has two decisions or two videos, a slide has a video
\* only under a decision other than skip, and the total counter holds every
\* decided duration exactly once.
C2_ExactlyOneOutcome ==
    /\ \A n \in DOMAIN slides :
          /\ Len(outcome[n]) <= 1
          /\ Len(videos[n]) <= 1
          /\ (slides[n].objectId # None /\ n < idx) =>
                 /\ Len(outcome[n]) = 1
                 /\ outcome[n][1][1] \in
                        {"skip", "range_average", "own_suggested", "operator"}
          /\ (slides[n].objectId = None \/ n > idx) => outcome[n] = <<>>
          /\ videos[n] # <<>> => (outcome[n] # <<>> /\ outcome[n][1][1] # "skip")
    /\ mins_assigned_so_far = DurationsUpTo(Len(slides))

C2_Witness ==
    /\ pc = "done"
    /\ \E a, b, c \in DOMAIN slides :
          /\ outcome[a] = <<(<<"skip", 0>>)>>
          /\ outcome[b] # <<>> /\ outcome[b][1][1] = "range_average"
          /\ outcome[c] # <<>> /\ outcome[c][1][1] = "operator"

\* C3: when the slide at hand carries a range declaration, then before its
\* duration is resolved the active range is the declared one, the average is
\* recomputed and the range-scoped counter is zero.
C3_DeclarationResetsRangeCounter ==
    (pc = "resolve" /\ get_range(Slide) # None) =>
        /\ ActiveRange = get_range(Slide)
        /\ range_avg_mins_per_slide =
               get_avg_time_per_slide_in_range(
                   get_num_slides_in_range(range_start, range_end), range_total_mins)
        /\ range_mins_assigned_so_far = 0

\* C4: a slide whose number lies in the active range and that has no
\* suggested time gets the range's average as its duration; and a declared
\* range with start = end has its total as average and holds exactly the
\* slide numbered start.
C4_InRangeGetsAverage ==
    /\ [][(pc = "resolve" /\ InActiveRange(idx)
             /\ get_suggested_time_for_slide(Slide) = None) =>
            /\ pc' = "lookup"
            /\ slide_duration' = range_avg_mins_per_slide
            /\ outcome'[idx] = <<(<<"range_average", range_avg_mins_per_slide>>)>>]_vars
    /\ []((range_info_slide_number # 0 /\ range_start = range_end) =>
            /\ range_avg_mins_per_slide = range_total_mins
            /\ \A n \in DOMAIN slides :
                  slides[n].objectId # None =>
                      (is_slide_in_range(slides[n], range_start, range_end)
                          <=> Number(n) = range_start))

C4_Witness ==
    /\ pc = "lookup"
    /\ range_info_slide_number # 0
    /\ range_start = range_end
    /\ Number(idx) = range_start
    /\ get_suggested_time_for_slide(Slide) = None
    /\ slide_duration = range_total_mins
    /\ Len(slides) > idx

\* The range 3-6 of 10 minutes, declared on slide 3, is active and no slide
\* numbered 3-6 has a suggested time.
Range3To6Of10 ==
    /\ range_info_slide_number = 3
    /\ ActiveRange = <<3, 6, 10>>
    /\ \A n \in DOMAIN slides \cap 3..6 :
          get_suggested_time_for_slide(slides[n]) = None

C6_OwnSuggestedAnyValue ==
    [][(pc = "resolve" /\ ~InActiveRange(idx)
          /\ get_suggested_time_for_slide(Slide) # None) =>
         /\ pc' = "lookup"
         /\ slide_duration' = get_suggested_time_for_slide(Slide)[1]]_vars

\* C6: a slide outside the active range with its own suggested time N # 0
\* gets the duration N, and the video then created on it is the table entry
\* for N (the 5-minute video for N = 5).
C6_OwnSuggestedNonZero ==
    /\ [][(pc = "resolve" /\ ~InActiveRange(idx)
             /\ get_suggested_time_for_slide(Slide) # None
             /\ get_suggested_time_for_slide(Slide)[1] # 0) =>
            /\ pc' = "lookup"
            /\ slide_duration' = get_suggested_time_for_slide(Slide)[1]
            /\ outcome'[idx] =
                   <<(<<"own_suggested", get_suggested_time_for_slide(Slide)[1]>>)>>]_vars
    /\ [][(pc = "lookup" /\ outcome[idx][1][1] = "own_suggested"
             /\ get_suggested_time_for_slide(Slide)[1] \in DOMAIN TIMER_VIDEOS) =>
            /\ videos'[idx] =
                   <<TIMER_VIDEOS[get_suggested_time_for_slide(Slide)[1]][2]>>
            /\ (get_suggested_time_for_slide(Slide)[1] = 5 =>
                    videos'[idx] = <<"h6Hr8IJLpLo">>)]_vars

C6_Witness ==
    /\ pc = "for"
    /\ idx - 1 \in DOMAIN slides
    /\ get_suggested_time_for_slide(slides[idx - 1]) = <<5>>
    /\ outcome[idx - 1] = <<(<<"own_suggested", 5>>)>>
    /\ videos[idx - 1] = <<"h6Hr8IJLpLo">>
    /\ range_info_slide_number # 0

\* What OperatorInput must do from the prompt: apply exactly the value typed,
\* or raise without assigning anything.
AppliesOperatorValue ==
    /\ operator_input' # None
    /\ idx' = idx
    /\ videos' = videos
    /\ LET typed == IntOfInput(operator_input'[1])
       IN  IF typed = None
           THEN /\ pc' = "raised"
                /\ UNCHANGED <<slide_duration, mins_assigned_so_far,
                               range_mins_assigned_so_far, outcome>>
           ELSE /\ pc' = "lookup"
                /\ slide_duration' = typed[1]
                /\ mins_assigned_so_far' = mins_assigned_so_far + typed[1]
                /\ range_mins_assigned_so_far' = range_mins_assigned_so_far + typed[1]
                /\ outcome'[idx] = <<(<<"operator", typed[1]>>)>>

\* Nothing is assigned, counted or created for the slide, and the loop has
\* not moved on.
NothingAssigned ==
    /\ pc' = "input"
    /\ UNCHANGED <<idx, slide_duration, mins_assigned_so_far,
                   range_mins_assigned_so_far, inserted_count, videos, outcome>>

\* C7 as stated: a slide inside the active range that has its own suggested
\* time stops at the operator prompt with nothing assigned.
C7_ConflictAlwaysPrompts ==
    [][(pc = "resolve" /\ InActiveRange(idx)
          /\ get_suggested_time_for_slide(Slide) # None) => NothingAssigned]_vars

\* C7: a slide inside the active range whose own suggested time is not 0
\* stops at the operator prompt with nothing assigned, counted or created
\* and no later slide begun; the only step from the prompt applies exactly
\* the value the operator typed.
C7_ConflictPromptsOperator ==
    /\ [][(pc = "resolve" /\ InActiveRange(idx)
             /\ get_suggested_time_for_slide(Slide) # None
             /\ get_suggested_time_for_slide(Slide)[1] # 0) => NothingAssigned]_vars
    /\ [][pc = "input" => AppliesOperatorValue]_vars
    /\ [](pc = "input" =>
            /\ slide_duration = 0
            /\ outcome[idx] = <<>>
            /\ videos[idx] = <<>>
            /\ \A n \in DOMAIN slides : n > idx => outcome[n] = <<>>)

C7_Witness ==
    /\ pc = "lookup"
    /\ InActiveRange(idx)
    /\ get_suggested_time_for_slide(Slide) = <<5>>
    /\ operator_input # None
    /\ outcome[idx] = <<(<<"operator", 4>>)>>
    /\ slide_duration = 4
    /\ range_avg_mins_per_slide \notin {4, 5}

\* C8 as stated: processing a skipped slide leaves the counters, the active
\* range, the inserted count and the videos as they were.
C8_SkipChangesNothing == JustSkipped => Accumulators = at_entry

\* C8: a slide with neither a place in the active range nor a suggested time
\* is skipped; processing a skipped slide leaves both counters, the inserted
\* count and the videos as they were, and the active range too unless the
\* slide itself carries a range declaration.
C8_SkipKeepsCounters ==
    /\ [][(pc = "resolve" /\ ~InActiveRange(idx)
             /\ get_suggested_time_for_slide(Slide) = None) =>
            /\ pc' = "for"
            /\ idx' = idx + 1
            /\ outcome'[idx] = <<(<<"skip", 0>>)>>]_vars
    /\ [](JustSkipped =>
            /\ mins_assigned_so_far = at_entry.mins_assigned_so_far
            /\ range_mins_assigned_so_far = at_entry.range_mins_assigned_so_far
            /\ inserted_count = at_entry.inserted_count
            /\ videos = at_entry.videos
            /\ videos[idx - 1] = <<>>
            /\ (get_range(slides[idx - 1]) = None =>
                    <<range_start, range_end, range_total_mins,
                      range_avg_mins_per_slide>> = at_entry.range))

C8_Witness ==
    /\ JustSkipped
    /\ get_range(slides[idx - 1]) = None
    /\ range_info_slide_number # 0
    /\ mins_assigned_so_far > 0
    /\ inserted_count > 0

\* C9: the carried suggested-minutes value is 0 whenever the processing of a
\* slide starts, up to the point where the slide's own notes are read.
C9_SuggestedTimeNotCarried ==
    pc \in {"for", "resolve", "done"} => slide_suggested_mins = 0

C9_Witness ==
    /\ pc = "resolve"
    /\ idx - 1 \in DOMAIN slides
    /\ get_suggested_time_for_slide(slides[idx - 1]) = <<5>>
    /\ videos[idx - 1] # <<>>
    /\ get_suggested_time_for_slide(Slide) = None

\* C10: a duration without a table entry ends the lookup in KeyError with no
\* video created and nothing counted as inserted; every video on a slide is
\* the table entry of the duration decided for that slide.
C10_UnsupportedDurationRaises ==
    /\ [][(pc = "lookup" /\ slide_duration \notin DOMAIN TIMER_VIDEOS) =>
            /\ pc' = "raised"
            /\ error' = "KeyError"
            /\ videos' = videos
            /\ inserted_count' = inserted_count]_vars
    /\ []((pc = "raised" /\ error = "KeyError") =>
            /\ slide_duration \notin DOMAIN TIMER_VIDEOS
            /\ videos[idx] = <<>>)
    /\ [](\A n \in DOMAIN slides :
            videos[n] # <<>> =>
                /\ outcome[n][1][2] \in DOMAIN TIMER_VIDEOS
                /\ videos[n] = <<TIMER_VIDEOS[outcome[n][1][2]][2]>>)

C10_Witness ==
    /\ pc = "raised"
    /\ error = "KeyError"
    /\ outcome[idx] = <<(<<"operator", 12>>)>>
    /\ videos[idx] = <<>>

\* Every slide of the deck that has an objectId has one of the form "p<n>".
AllIdsNumeric ==
    \A n \in DOMAIN slides : slides[n].objectId # None => HasNumericId(slides[n])

\* Every notes text shape of the slide that matches SPEAKER_NOTES_PATTERN
\* matches UNWANTED_PATTERN too.
EveryMatchGuarded(slide) ==
    \A k \in DOMAIN slide.notes :
        SPEAKER_NOTES_PATTERN(slide.notes[k]) # None => UNWANTED_PATTERN(slide.notes[k])

\* C11: reading the notes never raises, neither when the slide at hand is
\* resolved nor when a range declaration makes the loop sum the suggested
\* times of the range: on a deck whose objectIds are all numbers, no step
\* from the top of the loop body or from the resolution of the slide ends
\* the run with ValueError.
C11_MalformedNotesNeverRaise ==
    [][(pc \in {"for", "resolve"} /\ AllIdsNumeric) =>
          ~(pc' = "raised" /\ error' = "ValueError")]_vars

\* C12: a slide whose objectId is absent or is no number is passed over: the
\* loop moves to the next slide, nothing is raised and no accumulator, range
\* or video changes; and a range declaration is read whatever the objectIds
\* of the other slides are.
C12_BadIdentifierIsSkipped ==
    /\ [][(pc = "for" /\ idx <= Len(slides)
             /\ (Slide.objectId = None \/ ~HasNumericId(Slide))) =>
            /\ pc' = "for"
            /\ idx' = idx + 1
            /\ error' = "none"
            /\ Accumulators' = Accumulators]_vars
    /\ [][(pc = "for" /\ idx <= Len(slides) /\ Slide.objectId # None
             /\ HasNumericId(Slide) /\ get_range(Slide) # None
             /\ get_num_slides_in_range(get_range(Slide)[1], get_range(Slide)[2]) # 0
             /\ \A n \in DOMAIN slides : ~SuggestedTimeRaises(slides[n])) =>
            pc' = "resolve"]_vars

\* C13 as stated: a slide one of whose notes text shapes matches
\* UNWANTED_PATTERN has no suggested time, so it is skipped outside the
\* active range and gets the range average inside it.
C13_GuardHoldsForWholeSlide ==
    [][(pc = "resolve" /\ \E k \in DOMAIN Slide.notes : UNWANTED_PATTERN(Slide.notes[k])) =>
          /\ pc' # "input"
          /\ outcome'[idx] \in {<<(<<"skip", 0>>)>>,
                                <<(<<"range_average", range_avg_mins_per_slide>>)>>}]_vars

\* C13: the guard is applied to each notes text shape.  A slide all of whose
\* shapes that match SPEAKER_NOTES_PATTERN match UNWANTED_PATTERN too has no
\* suggested time: it is skipped outside the active range and gets the range
\* average, without a prompt, inside it.  A guarded shape never supplies the
\* suggested time: the time comes from the first shape that matches and is
\* not guarded.
C13_GuardedShapeGivesNoTime ==
    /\ [][(pc = "resolve" /\ EveryMatchGuarded(Slide)) =>
            /\ get_suggested_time_for_slide(Slide) = None
            /\ pc' = IF InActiveRange(idx) THEN "lookup" ELSE "for"
            /\ outcome'[idx] =
                   IF InActiveRange(idx)
                   THEN <<(<<"range_average", range_avg_mins_per_slide>>)>>
                   ELSE <<(<<"skip", 0>>)>>]_vars
    /\ [](\A n \in DOMAIN slides :
            SuggestedElement(slides[n]) # 0 =>
                /\ ~UNWANTED_PATTERN(slides[n].notes[SuggestedElement(slides[n])])
                /\ \A k \in 1..(SuggestedElement(slides[n]) - 1) :
                      \/ SPEAKER_NOTES_PATTERN(slides[n].notes[k]) = None
                      \/ UNWANTED_PATTERN(slides[n].notes[k]))

C13_Witness ==
    /\ pc = "lookup"
    /\ Slide.notes = <<ForSlides>>
    /\ range_info_slide_number # 0
    /\ outcome[idx] = <<(<<"range_average", 2>>)>>
    /\ \E n \in 1..(idx - 1) :
          /\ slides[n].notes = <<ForSlides>>
          /\ outcome[n] = <<(<<"skip", 0>>)>>

\* C15: an exit-ticket slide that is the second-to-last slide of the deck
\* gets 10 minutes whatever the range and its notes say, and no slide after
\* it gets a video.
C15_ExitTicketGetsTenMinutes ==
    \A n \in DOMAIN slides :
        (slides[n].exit_ticket /\ n = Len(slides) - 1 /\ n < idx) =>
            /\ Len(outcome[n]) = 1
            /\ outcome[n][1][1] # "skip"
            /\ outcome[n][1][2] = 10
            /\ \A m \in DOMAIN slides : m > n => videos[m] = <<>>

\* The last element of a sequence.
Last(seq) == seq[Len(seq)]

\* The video page elements of the deck, each named as PageElements names it.
VideoElements ==
    UNION {{<<n, k>> : k \in 1..Len(videos[n])} : n \in DOMAIN slides}

\* C14: delete, add, delete, add on the same deck, with the same texts typed
\* at the prompts of both add runs: the second add ends with the decisions
\* and the videos the first add ended with, slide by slide, and every slide
\* that holds a video holds exactly one.
C14_DeleteThenAddTwice ==
    (/\ commands = <<"delete", "add", "delete", "add">>
     /\ pc \in {"done", "raised"}
     /\ answers = previous[1].answers) =>
        /\ outcome = previous[1].outcome
        /\ videos = previous[1].videos
        /\ \A n \in DOMAIN slides :
              /\ Len(videos[n]) <= 1
              /\ (n < idx /\ outcome[n] # <<>> /\ outcome[n][1][1] # "skip") =>
                     videos[n] = <<TIMER_VIDEOS[outcome[n][1][2]][2]>>

C14_Witness ==
    /\ commands = <<"delete", "add", "delete", "add">>
    /\ pc = "done"
    /\ answers = previous[1].answers
    /\ \E n \in DOMAIN slides : answers[n] # <<>>
    /\ inserted_count = 2
    /\ requests # None
    /\ Len(requests[1]) = 2

\* C16: the active range always has start <= end.
C16_ActiveRangeIsOrdered == range_start <= range_end

\* C17 as stated: whenever a duration is resolved, the total counter and the
\* range-scoped counter both grow by it.
C17_BothCountersIncremented ==
    [][(pc \in {"resolve", "input"} /\ pc' = "lookup") =>
          /\ mins_assigned_so_far' = mins_assigned_so_far + slide_duration'
          /\ range_mins_assigned_so_far' =
                 range_mins_assigned_so_far + slide_duration']_vars

\* C17: whenever a duration is resolved the total counter grows by it, and
\* the range-scoped counter grows by it when the slide is in the active
\* range (range average, operator value) and stays as it is otherwise (own
\* suggested time); both before the lookup, which has created nothing yet.
\* So the total counter always equals the sum of the durations decided so
\* far, also when the lookup of the last one has raised KeyError.
C17_CountersFollowDurations ==
    /\ [][(pc \in {"resolve", "input"} /\ pc' = "lookup") =>
            /\ mins_assigned_so_far' = mins_assigned_so_far + slide_duration'
            /\ range_mins_assigned_so_far' =
                   range_mins_assigned_so_far +
                       (IF slide_in_range THEN slide_duration' ELSE 0)
            /\ outcome'[idx][1][1] = "own_suggested" <=> ~slide_in_range
            /\ videos' = videos
            /\ inserted_count' = inserted_count]_vars
    /\ [](mins_assigned_so_far = DurationsUpTo(Len(slides)))
    /\ []((pc = "raised" /\ error = "KeyError") =>
            /\ outcome[idx] # <<>>
            /\ slide_duration = outcome[idx][1][2]
            /\ mins_assigned_so_far = at_entry.mins_assigned_so_far + slide_duration
            /\ videos[idx] = <<>>)

C17_Witness ==
    /\ pc = "raised"
    /\ error = "KeyError"
    /\ outcome[idx] = <<(<<"own_suggested", 11>>)>>
    /\ range_mins_assigned_so_far > 0
    /\ mins_assigned_so_far = range_mins_assigned_so_far + 11

\* C18: a delete requests the deletion of every video page element of the
\* deck, each once, and of nothing else; it sends no request when the deck
\* holds no video; the slides are as they were and no video is left.
C18_DeleteIsPureFilter ==
    [][(Len(commands') = Len(commands) + 1 /\ Last(commands') = "delete") =>
          /\ VideoElements = {} => requests' = None
          /\ VideoElements # {} =>
                 /\ requests' # None
                 /\ {requests'[1][i] : i \in DOMAIN requests'[1]} = VideoElements
                 /\ Len(requests'[1]) = Cardinality(VideoElements)
          /\ slides' = slides
          /\ \A n \in DOMAIN slides : videos'[n] = <<>>]_vars

C18_Witness ==
    /\ commands = <<"add", "add", "delete">>
    /\ pc = "idle"
    /\ requests # None
    /\ Len(requests[1]) = 4
    /\ Len(slides) = 2
    /\ slides[1].range # None
    /\ \A n \in DOMAIN slides : videos[n] = <<>>

\* The minutes decided so far by the range average for slides 1..n.
RECURSIVE RangeAverageMinutesUpTo(_)
RangeAverageMinutesUpTo(n) ==
    IF n = 0 THEN 0
    ELSE (IF outcome[n] # <<>> /\ outcome[n][1][1] = "range_average"
          THEN outcome[n][1][2] ELSE 0) + RangeAverageMinutesUpTo(n - 1)

\* C19: for a declared range with start <= end, the slide count times the
\* stored average is at most the declared total; and the minutes the range
\* average has given to the slides of the range are at most the declared
\* total.
C19_AverageWithinBudget ==
    (range_info_slide_number # 0 /\ range_start <= range_end) =>
        /\ range_total_mins >= 0
        /\ get_num_slides_in_range(range_start, range_end) * range_avg_mins_per_slide
               <= range_total_mins
        /\ RangeAverageMinutesUpTo(Len(slides)) <= range_total_mins

C19_Witness ==
    /\ pc = "done"
    /\ Len(slides) = 3
    /\ ActiveRange = <<1, 3, 8>>
    /\ \A n \in DOMAIN slides : outcome[n] = <<(<<"range_average", 2>>)>>
    /\ RangeAverageMinutesUpTo(3) = 6

\* C20: a range declaration is in effect from the slide that declares it:
\* when a slide is resolved the active range is the one that slide declares,
\* or else the one that was active when the slide began, and the slide is
\* decided by the range (average or prompt) exactly when its number lies in
\* the active range.  The active range changes only at a declaring slide.
\* No step changes the decision or the videos of a slide the loop has
\* passed.  Before any declaration the range is 0-0 and no slide is decided
\* by a range.
C20_RangeNotRetroactive ==
    /\ [](pc = "resolve" =>
            /\ slide_in_range <=> InActiveRange(idx)
            /\ get_range(Slide) # None => ActiveRange = get_range(Slide)
            /\ get_range(Slide) = None =>
                   ActiveRange = <<at_entry.range[1], at_entry.range[2], at_entry.range[3]>>)
    /\ [][pc = "resolve" =>
            (InActiveRange(idx) <=>
                \/ pc' = "input"
                \/ /\ pc' = "lookup"
                   /\ outcome'[idx] = <<(<<"range_average", range_avg_mins_per_slide>>)>>)]_vars
    /\ [][ActiveRange' # ActiveRange =>
            /\ pc = "for"
            /\ get_range(Slide) # None
            /\ ActiveRange' = get_range(Slide)]_vars
    /\ [][\A n \in DOMAIN slides :
            n < idx => (outcome'[n] = outcome[n] /\ videos'[n] = videos[n])]_vars
    /\ [](range_info_slide_number = 0 =>
            /\ ActiveRange = <<0, 0, 0>>
            /\ \A n \in DOMAIN slides :
                  outcome[n] # <<>> => outcome[n][1][1] \in {"skip", "own_suggested"})

C20_Witness ==
    /\ pc = "done"
    /\ Len(slides) = 3
    /\ get_range(slides[2]) = <<1, 3, 7>>
    /\ outcome[1] = <<(<<"skip", 0>>)>>
    /\ outcome[2] = <<(<<"range_average", 2>>)>>
    /\ outcome[3] = <<(<<"range_average", 2>>)>>
====
